---------------------------- MODULE Spec2Model ----------------------------
(***************************************************************************)
(* Keyframe animation, multi-channel sampler and effect pipeline of        *)
(* synther (src/src/KeyFrame.cpp, Effects.cpp, Utils.cpp, Variant.h).      *)
(*                                                                         *)
(* A double that holds a value (a keyframe value, an interpolation         *)
(* result, alpha) is modelled as an exact rational [n, d] in lowest terms.  *)
(* A double that holds a time (a keyframe time, the tick, the window, the   *)
(* loop variable of a scan) carries both the real number it stands for and  *)
(* its IEEE-754 binary64 value: every comparison of times and every         *)
(* conversion of a time to an integer is computed on the binary64 value,    *)
(* correctly rounded as the build computes it.  Times are in milliseconds,  *)
(* as in the code.  16-bit samples keep their width.                        *)
(***************************************************************************)
EXTENDS Integers, Sequences, FiniteSets, TLC

VARIABLES animation, inserts, last,
          buffer_count, buffers, handles_returned, handles_freed, lib_calls

\* the buffer registry of lib.cpp (buffer_count, buffers) and the history of
\* its calls: the handles gen_buffer has returned, in order, the handles
\* free_buffer has freed, and the number of calls made
registry == <<buffer_count, buffers, handles_returned, handles_freed, lib_calls>>

vars == <<animation, inserts, last, registry>>

---------------------------------------------------------------------------
(* double, for values: exact rationals *)

Abs(x) == IF x < 0 THEN -x ELSE x

RECURSIVE GCD(_, _)
GCD(a, b) == IF b = 0 THEN a ELSE GCD(b, a % b)

\* n/d in lowest terms with d > 0
Rat(n, d) ==
  LET s == IF d < 0 THEN -1 ELSE 1
      g == GCD(Abs(n), Abs(d))
  IN  [n |-> (s * n) \div g, d |-> (s * d) \div g]

R(i) == [n |-> i, d |-> 1]

RAdd(x, y) == Rat(x.n * y.d + y.n * x.d, x.d * y.d)
RSub(x, y) == Rat(x.n * y.d - y.n * x.d, x.d * y.d)
RMul(x, y) == Rat(x.n * y.n, x.d * y.d)
RDiv(x, y) == Rat(x.n * y.d, x.d * y.n)
RLess(x, y) == x.n * y.d < y.n * x.d
RLeq(x, y) == x.n * y.d <= y.n * x.d

\* static_cast<integer>(double): truncation toward zero
Trunc(x) == IF x.n >= 0 THEN x.n \div x.d ELSE -((-x.n) \div x.d)

\* std::round: to nearest, halves away from zero
Round(x) ==
  IF x.n >= 0 THEN (2 * x.n + x.d) \div (2 * x.d)
  ELSE -((2 * (-x.n) + x.d) \div (2 * x.d))

---------------------------------------------------------------------------
(* double: IEEE-754 binary64 arithmetic *)

(* An operator's argument is evaluated wherever the operator's body uses it;
   a value bound by a set constructor is evaluated once.  Only({e : x \in {v}})
   is e with x = v. *)
Only(S) == CHOOSE x \in S : TRUE

(* natural numbers of any size: sequences of limbs, least significant first,
   without leading zero limbs *)
LimbBits == 14

Limb == 16384

RECURSIVE Pow2(_)
Pow2(k) == IF k = 0 THEN 1 ELSE 2 * Pow2(k - 1)

\* number of bits of k
RECURSIVE IntBits(_)
IntBits(k) == IF k = 0 THEN 0 ELSE 1 + IntBits(k \div 2)

\* the highest position up to i that holds a limb other than 0
RECURSIVE BigTop(_, _)
BigTop(a, i) == IF i = 0 THEN 0 ELSE IF a[i] # 0 THEN i ELSE BigTop(a, i - 1)

BigTrim(a) == SubSeq(a, 1, BigTop(a, Len(a)))

RECURSIVE BigOfInt(_)
BigOfInt(k) == IF k = 0 THEN << >> ELSE <<k % Limb>> \o BigOfInt(k \div Limb)

RECURSIVE BigToIntFrom(_, _)
BigToIntFrom(a, i) == IF i > Len(a) THEN 0 ELSE a[i] + Limb * BigToIntFrom(a, i + 1)

BigToInt(a) == BigToIntFrom(a, 1)

BigLimb(a, i) == IF i <= Len(a) THEN a[i] ELSE 0

RECURSIVE BigAddFrom(_, _, _, _)
BigAddFrom(a, b, i, carry) ==
  IF i > Len(a) /\ i > Len(b)
  THEN IF carry = 0 THEN << >> ELSE <<carry>>
  ELSE Only({<<s % Limb>> \o BigAddFrom(a, b, i + 1, s \div Limb) :
               s \in {BigLimb(a, i) + BigLimb(b, i) + carry}})

BigAdd(a, b) == BigAddFrom(a, b, 1, 0)

\* a - b for a >= b
RECURSIVE BigSubFrom(_, _, _, _)
BigSubFrom(a, b, i, borrow) ==
  IF i > Len(a) THEN << >>
  ELSE Only({<<(d + Limb) % Limb>> \o BigSubFrom(a, b, i + 1, IF d < 0 THEN 1 ELSE 0) :
               d \in {BigLimb(a, i) - BigLimb(b, i) - borrow}})

BigSub(a, b) == Only({BigTrim(d) : d \in {BigSubFrom(a, b, 1, 0)}})

\* -1, 0, 1 as a < b, a = b, a > b
RECURSIVE BigCmpFrom(_, _, _)
BigCmpFrom(a, b, i) ==
  IF i = 0 THEN 0
  ELSE IF a[i] < b[i] THEN -1
  ELSE IF a[i] > b[i] THEN 1
  ELSE BigCmpFrom(a, b, i - 1)

BigCmp(a, b) ==
  IF Len(a) < Len(b) THEN -1
  ELSE IF Len(a) > Len(b) THEN 1
  ELSE BigCmpFrom(a, b, Len(a))

\* a * k for 0 <= k < 2^16
RECURSIVE BigMulSmallFrom(_, _, _, _)
BigMulSmallFrom(a, k, i, carry) ==
  IF i > Len(a) THEN BigOfInt(carry)
  ELSE Only({<<p % Limb>> \o BigMulSmallFrom(a, k, i + 1, p \div Limb) :
               p \in {a[i] * k + carry}})

BigMulSmall(a, k) == Only({BigTrim(p) : p \in {BigMulSmallFrom(a, k, 1, 0)}})

\* a * Limb^n
BigShiftLimbs(a, n) == IF a = << >> THEN a ELSE [i \in 1..n |-> 0] \o a

\* a * 2^n
BigShl(a, n) ==
  Only({BigShiftLimbs(p, n \div LimbBits) : p \in {BigMulSmall(a, Pow2(n % LimbBits))}})

RECURSIVE BigMulFrom(_, _, _)
BigMulFrom(a, b, i) ==
  IF i > Len(b) THEN << >>
  ELSE Only({BigAdd(BigShiftLimbs(p, i - 1), rest) :
               p \in {BigMulSmall(a, b[i])}, rest \in {BigMulFrom(a, b, i + 1)}})

BigMul(a, b) == BigMulFrom(a, b, 1)

\* floor(a / d) and a % d for 0 < d < 2^16: q holds the quotient's limbs
\* above position i, rem what is left over of them
RECURSIVE BigDivSmallFrom(_, _, _, _, _)
BigDivSmallFrom(a, d, i, rem, q) ==
  IF i = 0 THEN [q |-> BigTrim(q), r |-> rem]
  ELSE Only({BigDivSmallFrom(a, d, i - 1, cur % d, next) :
               cur \in {rem * Limb + a[i]}, next \in {<<(rem * Limb + a[i]) \div d>> \o q}})

BigDivSmall(a, d) == BigDivSmallFrom(a, d, Len(a), 0, << >>)

BigBits(a) == IF a = << >> THEN 0 ELSE (Len(a) - 1) * LimbBits + IntBits(a[Len(a)])

\* floor(a / 2^n)
BigShr(a, n) ==
  IF n \div LimbBits >= Len(a) THEN << >>
  ELSE Only({BigDivSmall(upper, Pow2(n % LimbBits)).q :
               upper \in {SubSeq(a, (n \div LimbBits) + 1, Len(a))}})

BigOdd(a) == a # << >> /\ a[1] % 2 = 1

\* -1, 0, 1 as a * 2^ea is below, equal to, above b * 2^eb
BigCmpScaled(a, ea, b, eb) ==
  IF ea >= eb
  THEN Only({BigCmp(s, b) : s \in {BigShl(a, ea - eb)}})
  ELSE Only({BigCmp(a, s) : s \in {BigShl(b, eb - ea)}})

(* IEEE-754 binary64, finite and non-negative: [m, e] stands for m * 2^e with
   m a natural of exactly 53 bits, or m = << >> for zero *)
DblZero == [m |-> << >>, e |-> 0]

\* keep = floor(n / 2^drop) rounded up by one when the bits dropped from n are
\* more than half a unit of keep, or half a unit and keep is odd
DblRoundUp(n, drop, keep) ==
  Only({c > 0 \/ (c = 0 /\ BigOdd(keep)) :
          c \in {Only({BigCmp(low, half) :
                         low  \in {Only({BigSub(n, s) : s \in {BigShl(keep, drop)}})},
                         half \in {BigShl(<<1>>, drop - 1)}})}})

\* m of 53 or, after a carry, 54 bits, at exponent e
DblNormal(m, e) ==
  IF BigBits(m) = 54 THEN [m |-> BigShr(m, 1), e |-> e + 1] ELSE [m |-> m, e |-> e]

\* n * 2^e for n of `bits` > 53 bits
DblRoundLong(n, e, drop) ==
  Only({Only({DblNormal(m, e + drop) :
                m \in {IF DblRoundUp(n, drop, keep) THEN BigAdd(keep, <<1>>) ELSE keep}}) :
          keep \in {BigShr(n, drop)}})

DblRoundBits(n, e, bits) ==
  IF bits <= 53 THEN [m |-> BigShl(n, 53 - bits), e |-> e - (53 - bits)]
  ELSE DblRoundLong(n, e, bits - 53)

\* the double nearest to n * 2^e, ties to even
DblRound(n, e) ==
  IF n = << >> THEN DblZero ELSE Only({DblRoundBits(n, e, bits) : bits \in {BigBits(n)}})

DblOfInt(k) == Only({DblRound(n, 0) : n \in {BigOfInt(k)}})

\* the significand of x at the smaller of the exponents of x and y
DblAlignA(x, y) == IF x.e >= y.e THEN BigShl(x.m, x.e - y.e) ELSE x.m

DblAlignE(x, y) == IF x.e >= y.e THEN y.e ELSE x.e

DblCmp(x, y) ==
  IF x.m = << >> THEN (IF y.m = << >> THEN 0 ELSE -1)
  ELSE IF y.m = << >> THEN 1
  ELSE Only({BigCmp(a, b) : a \in {DblAlignA(x, y)}, b \in {DblAlignA(y, x)}})

DblLess(x, y) == DblCmp(x, y) < 0

DblAdd(x, y) ==
  IF x.m = << >> THEN y ELSE IF y.m = << >> THEN x
  ELSE Only({Only({DblRound(s, DblAlignE(x, y)) : s \in {BigAdd(a, b)}}) :
               a \in {DblAlignA(x, y)}, b \in {DblAlignA(y, x)}})

\* x - y for x >= y
DblSub(x, y) ==
  IF y.m = << >> THEN x
  ELSE Only({Only({DblRound(d, DblAlignE(x, y)) : d \in {BigSub(a, b)}}) :
               a \in {DblAlignA(x, y)}, b \in {DblAlignA(y, x)}})

\* x * k for an integer 0 <= k < 2^16
DblMulInt(x, k) == Only({DblRound(p, x.e) : p \in {BigMulSmall(x.m, k)}})

\* x / d for an integer 0 < d < 2^16: 20 more bits of quotient than the
\* significand holds, and one that tells whether anything is left over
DblDivInt(x, d) ==
  Only({Only({DblRound(n, x.e - 21) :
                n \in {Only({BigAdd(twice, IF qr.r = 0 THEN << >> ELSE <<1>>) :
                               twice \in {BigShl(qr.q, 1)}})}}) :
          qr \in {Only({BigDivSmall(s, d) : s \in {BigShl(x.m, 20)}})}})

\* static_cast<size_t>(x)
DblTrunc(x) ==
  IF x.m = << >> THEN 0
  ELSE IF x.e >= 0 THEN Only({BigToInt(s) : s \in {BigShl(x.m, x.e)}})
  ELSE Only({BigToInt(s) : s \in {BigShr(x.m, -x.e)}})

\* k * y is above x
DblTimesAbove(k, y, x) ==
  Only({BigCmpScaled(p, y.e, x.m, x.e) > 0 : p \in {BigMulSmall(y.m, k)}})

\* the integer part of the real quotient x / y, reached from a first guess
RECURSIVE DblFloorDivFrom(_, _, _)
DblFloorDivFrom(x, y, guess) ==
  IF guess > 0 /\ DblTimesAbove(guess, y, x) THEN DblFloorDivFrom(x, y, guess - 1)
  ELSE IF ~DblTimesAbove(guess + 1, y, x) THEN DblFloorDivFrom(x, y, guess + 1)
  ELSE guess

\* a first guess of a / b from the leading limbs of the longer of them
DblGuessFrom(a, b, drop) ==
  Only({IF hi = 0 THEN 0 ELSE BigToInt(BigShr(a, drop)) \div hi :
          hi \in {BigToInt(BigShr(b, drop))}})

DblGuessLong(a, b, long) ==
  DblGuessFrom(a, b, IF long > 2 THEN (long - 2) * LimbBits ELSE 0)

DblGuessDiv(x, y) ==
  Only({DblGuessLong(a, b, IF Len(a) > Len(b) THEN Len(a) ELSE Len(b)) :
          a \in {DblAlignA(x, y)}, b \in {DblAlignA(y, x)}})

DblFloorDiv(x, y) ==
  IF x.m = << >> THEN 0
  ELSE Only({DblFloorDivFrom(x, y, guess) : guess \in {DblGuessDiv(x, y)}})

\* the correctly rounded x / y reaches the integer p > x / y: the quotient is
\* at least p less half the spacing 2^(j - 52) of the doubles below p
DblDivReaches(x, y, p, j) ==
  Only({BigCmpScaled(x.m, x.e + 53 - j, prod, y.e) >= 0 :
          prod \in {Only({BigMul(y.m, k) :
                            k \in {Only({BigSub(s, <<1>>) :
                                           s \in {BigShl(BigOfInt(p), 53 - j)}})}})}})

DblDivRoundsUpTo(x, y, p) == DblDivReaches(x, y, p, IntBits(p - 1) - 1)

DblTruncDivAt(x, y, m) == IF DblDivRoundsUpTo(x, y, m + 1) THEN m + 1 ELSE m

\* static_cast<size_t>(x / y) for x >= 0, y > 0 and a quotient below 2^14
DblTruncDiv(x, y) ==
  IF x.m = << >> THEN 0
  ELSE Only({DblTruncDivAt(x, y, m) : m \in {DblFloorDiv(x, y)}})

---------------------------------------------------------------------------
(* double, for times: the real number and the binary64 value *)

\* val: the real number the expression stands for; ieee: what it evaluates to
TimeOfInt(k) == [val |-> R(k), ieee |-> DblOfInt(k)]

TimeAdd(x, y) == [val |-> RAdd(x.val, y.val), ieee |-> DblAdd(x.ieee, y.ieee)]

\* x - y for x >= y
TimeSub(x, y) == [val |-> RSub(x.val, y.val), ieee |-> DblSub(x.ieee, y.ieee)]

\* x * k and x / d for a double k, d of integer value
TimeMulInt(x, k) == [val |-> RMul(x.val, R(k)), ieee |-> DblMulInt(x.ieee, k)]

TimeDivInt(x, d) == [val |-> RDiv(x.val, R(d)), ieee |-> DblDivInt(x.ieee, d)]

TimeLess(x, y) == DblLess(x.ieee, y.ieee)

TimeLeq(x, y) == ~DblLess(y.ieee, x.ieee)

\* static_cast<size_t>(x / y) and static_cast<size_t>(x)
TimeTruncDiv(x, y) == DblTruncDiv(x.ieee, y.ieee)

TimeTrunc(x) == DblTrunc(x.ieee)

---------------------------------------------------------------------------
(* Types.h *)

WAV_SAMPLE_RATE_HZ == 44100

AMP_MAX == 32767

SAMPLE_MS == TimeDivInt(TimeOfInt(1000), WAV_SAMPLE_RATE_HZ)

\* uint16_t <-> int16_t conversions (two's complement, modulo 2^16)
ToInt16(u) == LET w == u % 65536 IN IF w >= 32768 THEN w - 65536 ELSE w

ToUint16(i) == i % 65536

---------------------------------------------------------------------------
(* Variant.h *)

ValueType == {"BOOLEAN", "BIG_INTEGER", "DOUBLE"}

\* the union holds one number; bits is its value as a rational
\* (0 or 1 for a boolean, an integer for a bigint_t)
VariantBool(b) == [mValueType |-> "BOOLEAN", bits |-> IF b THEN R(1) ELSE R(0)]

VariantInt(i) == [mValueType |-> "BIG_INTEGER", bits |-> R(i)]

VariantDouble(x) == [mValueType |-> "DOUBLE", bits |-> x]

get_type(v) == v.mValueType

as_boolean(v) == v.bits # R(0)

as_big_integer(v) == Trunc(v.bits)

as_double(v) == v.bits

---------------------------------------------------------------------------
(* KeyFrame.h *)

KeyFrameInterpolationType == {"Constant", "Linear", "Cubic", "Cosine", "Exponential"}

KeyFrame(channel, time_ms, interpolation_type, value) ==
  [mChannel |-> channel, mTimeMS |-> time_ms,
   mInterpolation |-> interpolation_type, mValue |-> value]

\* Animation: std::map<unsigned, std::map<double, KeyFrame>>.  The outer map
\* is a function on the channels present; a timeline (inner map) is the
\* sequence of its entries in key order, each entry keyed by its mTimeMS.
EmptyAnimation == << >>

HasKey(timeline, time_ms) ==
  \E i \in 1..Len(timeline) : timeline[i].mTimeMS.ieee = time_ms.ieee

\* std::map::emplace: no effect when the key is present, else sorted insert
emplace(timeline, keyframe) ==
  IF HasKey(timeline, keyframe.mTimeMS) THEN timeline
  ELSE LET before == SelectSeq(timeline, LAMBDA k : TimeLess(k.mTimeMS, keyframe.mTimeMS))
           after  == SelectSeq(timeline, LAMBDA k : TimeLess(keyframe.mTimeMS, k.mTimeMS))
       IN  before \o <<keyframe>> \o after

insertKeyFrame(anim, keyframe) ==
  IF keyframe.mChannel \notin DOMAIN anim
  THEN [c \in (DOMAIN anim) \cup {keyframe.mChannel} |->
          IF c = keyframe.mChannel THEN <<keyframe>> ELSE anim[c]]
  ELSE [anim EXCEPT ![keyframe.mChannel] = emplace(@, keyframe)]


---------------------------------------------------------------------------
(* KeyFrame.cpp: interpolation *)

\* variant: the hold takes the value of the segment's end keyframe
interpolate_constant_end(a, b, before_a, after_b, alpha) == b

interpolate_constant(a, b, before_a, after_b, alpha) == a

\* variant: the slope has the opposite sign
interpolate_linear_reversed(a, b, before_a, after_b, alpha) ==
  RAdd(RMul(RSub(a, b), alpha), a)

interpolate_linear(a, b, before_a, after_b, alpha) == RAdd(RMul(RSub(b, a), alpha), a)

interpolate_cubic(a, b, before_a, after_b, alpha) ==
  LET mu2 == RMul(alpha, alpha)
      a0  == RAdd(RSub(RSub(after_b, b), before_a), a)
      a1  == RSub(RSub(before_a, a), a0)
      a2  == RSub(b, before_a)
      a3  == a
  IN  RAdd(RAdd(RAdd(RMul(RMul(a0, alpha), mu2), RMul(a1, mu2)), RMul(a2, alpha)), a3)

\* cos(alpha * PI) where it is rational, PI read as pi: the scans of the
\* modelled animations meet a Cosine segment at these alphas only
CosPi(alpha) ==
  CASE alpha = Rat(0, 1) -> Rat(1, 1)
    [] alpha = Rat(1, 3) -> Rat(1, 2)
    [] alpha = Rat(1, 2) -> Rat(0, 1)
    [] alpha = Rat(2, 3) -> Rat(-1, 2)
    [] alpha = Rat(1, 1) -> Rat(-1, 1)

\* the cosine blend with a and b exchanged
interpolate_cosine_reversed(a, b, before_a, after_b, alpha) ==
  LET tmp == RDiv(RSub(R(1), CosPi(alpha)), R(2))
  IN  RAdd(RMul(b, RSub(R(1), tmp)), RMul(a, tmp))

interpolate_cosine(a, b, before_a, after_b, alpha) ==
  LET tmp == RDiv(RSub(R(1), CosPi(alpha)), R(2))
  IN  RAdd(RMul(a, RSub(R(1), tmp)), RMul(b, tmp))

---------------------------------------------------------------------------
(* KeyFrame.cpp: processChannel *)

\* The keyFrameExtractorFunc of the typed wrapper for channels of `type`:
\* a keyframe value as the double that is interpolated.
keyFrameExtractorFunc(type, value) ==
  CASE type = "BOOLEAN"     -> IF as_boolean(value) THEN R(1) ELSE R(0)
    [] type = "BIG_INTEGER" -> R(as_big_integer(value))
    [] type = "DOUBLE"      -> as_double(value)

\* processorFunc with value > 0.5 for the boolean and the cast to bigint_t
\* without std::round
processorFunc_truncating(type, channel, timeMS, value) ==
  [kind |-> "emit", channel |-> channel, time |-> timeMS,
   value |-> CASE type = "BOOLEAN"     -> VariantBool(RLess(Rat(1, 2), value))
               [] type = "BIG_INTEGER" -> VariantInt(Trunc(value))
               [] type = "DOUBLE"      -> VariantDouble(value)]

\* The processorFunc of the typed wrapper: the call of the caller's
\* processFunc(timeMS, typed value) it makes for `channel`, as an event
\* carrying the arguments (the value tagged with its C++ type).
processorFunc(type, channel, timeMS, value) ==
  [kind |-> "emit", channel |-> channel, time |-> timeMS,
   value |-> CASE type = "BOOLEAN"     -> VariantBool(RLeq(Rat(1, 2), value))
               [] type = "BIG_INTEGER" -> VariantInt(Round(value))
               [] type = "DOUBLE"      -> VariantDouble(value)]

\* the values of `time` on which the body of
\* for (double time = start_time; time < end_time; time += iterationMS) runs
RECURSIVE LoopTimes(_, _, _)
LoopTimes(time, end_time, iterationMS) ==
  IF TimeLess(time, end_time)
  THEN Only({<<time>> \o LoopTimes(next, end_time, iterationMS) :
               next \in {TimeAdd(time, iterationMS)}})
  ELSE << >>

\* the loop body reading before_a from slot 0 and after_b from slot 3
LoopCalls_swapped_context(lastKeyFrames, times, type, channel) ==
  LET start_time == lastKeyFrames[2].mTimeMS
      end_time   == lastKeyFrames[1].mTimeMS
      method     == lastKeyFrames[2].mInterpolation
      a          == keyFrameExtractorFunc(type, lastKeyFrames[2].mValue)
      b          == keyFrameExtractorFunc(type, lastKeyFrames[1].mValue)
      before_a   == keyFrameExtractorFunc(type, lastKeyFrames[0].mValue)
      after_b    == keyFrameExtractorFunc(type, lastKeyFrames[3].mValue)
      Result(alpha) ==
        CASE method = "Constant" -> interpolate_constant(a, b, before_a, after_b, alpha)
          [] method = "Linear"   -> interpolate_linear(a, b, before_a, after_b, alpha)
          [] method = "Cubic"    -> interpolate_cubic(a, b, before_a, after_b, alpha)
          [] method = "Cosine"   -> interpolate_cosine(a, b, before_a, after_b, alpha)
  IN  [j \in 1..Len(times) |->
         LET alpha == RDiv(RSub(times[j].val, start_time.val),
                           RSub(end_time.val, start_time.val))
         IN  processorFunc(type, channel, times[j], Result(alpha))]

\* the body of that loop on each of `times`: the processorFunc calls, in order
LoopCalls(lastKeyFrames, times, type, channel) ==
  LET start_time == lastKeyFrames[2].mTimeMS
      end_time   == lastKeyFrames[1].mTimeMS
      method     == lastKeyFrames[2].mInterpolation
      a          == keyFrameExtractorFunc(type, lastKeyFrames[2].mValue)
      b          == keyFrameExtractorFunc(type, lastKeyFrames[1].mValue)
      before_a   == keyFrameExtractorFunc(type, lastKeyFrames[3].mValue)
      after_b    == keyFrameExtractorFunc(type, lastKeyFrames[0].mValue)
      Result(alpha) ==
        CASE method = "Constant" -> interpolate_constant(a, b, before_a, after_b, alpha)
          [] method = "Linear"   -> interpolate_linear(a, b, before_a, after_b, alpha)
          [] method = "Cubic"    -> interpolate_cubic(a, b, before_a, after_b, alpha)
          [] method = "Cosine"   -> interpolate_cosine(a, b, before_a, after_b, alpha)
  IN  [j \in 1..Len(times) |->
         LET alpha == RDiv(RSub(times[j].val, start_time.val),
                           RSub(end_time.val, start_time.val))
         IN  processorFunc(type, channel, times[j], Result(alpha))]

\* The lambda run on each position of the window of the last four keyframes
\* (lastKeyFrames[0] newest .. [3] oldest): the processorFunc calls it makes,
\* in order.
\* Exponential (pow) is outside the modelled input domain.
iterationFunc(lastKeyFrames, iterationMS, type, channel) ==
  Only({LoopCalls(lastKeyFrames, times, type, channel) :
          times \in {LoopTimes(lastKeyFrames[2].mTimeMS, lastKeyFrames[1].mTimeMS,
                               iterationMS)}})

\* lastKeyFrames[3] = [2]; [2] = [1]; [1] = [0]; [0] = &currentKeyFrame
ShiftIn(lastKeyFrames, currentKeyFrame) ==
  [i \in 0..3 |-> IF i = 0 THEN currentKeyFrame ELSE lastKeyFrames[i - 1]]

\* the same shift without a new keyframe: slot 0 is left as it is
ShiftFlush(lastKeyFrames) ==
  [i \in 0..3 |-> IF i = 0 THEN lastKeyFrames[0] ELSE lastKeyFrames[i - 1]]

\* the window after each keyframe of the range-for, from keyframe i on
RECURSIVE VisitKeyFrames(_, _, _)
VisitKeyFrames(timeline, i, lastKeyFrames) ==
  IF i > Len(timeline) THEN << >>
  ELSE LET w == ShiftIn(lastKeyFrames, timeline[i])
       IN  <<w>> \o VisitKeyFrames(timeline, i + 1, w)

\* the window positions without the two extra iterations
WindowPositions_no_flush(timeline) ==
  VisitKeyFrames(timeline, 1, [i \in 0..3 |-> timeline[1]])

\* every window position iterationFunc is run on: one per keyframe, then the
\* two extra iterations after the keyframes have run out
WindowPositions(timeline) ==
  LET first   == [i \in 0..3 |-> timeline[1]]
      visited == VisitKeyFrames(timeline, 1, first)
      flush1  == ShiftFlush(visited[Len(visited)])
      flush2  == ShiftFlush(flush1)
  IN  visited \o <<flush1, flush2>>

RECURSIVE Flatten(_)
Flatten(seqs) == IF seqs = << >> THEN << >> ELSE Head(seqs) \o Flatten(Tail(seqs))

\* the invocations of iterationFunc, in order: the window each one runs on
\* and the processorFunc calls it makes
ScanPasses(timeline, iterationMS, type, channel) ==
  Only({[p \in 1..Len(positions) |->
           Only({[lastKeyFrames |-> lastKeyFrames,
                  calls |-> iterationFunc(lastKeyFrames, iterationMS, type, channel)] :
                   lastKeyFrames \in {positions[p]}})] :
          positions \in {WindowPositions(timeline)}})

\* processChannel without the early return on an empty timeline
processChannel_empty_found(anim, channel, iterationMS, type) ==
  IF channel \notin DOMAIN anim
  THEN [found |-> FALSE, passes |-> << >>, calls |-> << >>]
  ELSE [found |-> TRUE, passes |-> << >>, calls |-> << >>]

\* found: the bool returned; passes: the invocations of iterationFunc; calls:
\* the processorFunc calls made, in order; type selects the
\* keyFrameExtractorFunc and processorFunc handed in
processChannel(anim, channel, iterationMS, type) ==
  IF channel \notin DOMAIN anim
  THEN [found |-> FALSE, passes |-> << >>, calls |-> << >>]
  ELSE IF Len(anim[channel]) = 0
  THEN [found |-> FALSE, passes |-> << >>, calls |-> << >>]
  ELSE Only({[found |-> TRUE, passes |-> passes,
              calls |-> Flatten([p \in 1..Len(passes) |-> passes[p].calls])] :
               passes \in {ScanPasses(anim[channel], iterationMS, type, channel)}})

processChannelAsBoolean(anim, channel, iterationMS) ==
  processChannel(anim, channel, iterationMS, "BOOLEAN")

processChannelAsInteger(anim, channel, iterationMS) ==
  processChannel(anim, channel, iterationMS, "BIG_INTEGER")

processChannelAsDouble(anim, channel, iterationMS) ==
  processChannel(anim, channel, iterationMS, "DOUBLE")

---------------------------------------------------------------------------
(* KeyFrame.cpp: processAllChannels *)

\* the keys of a std::map<int, ...> in iteration (ascending) order
RECURSIVE Ascending(_)
Ascending(S) ==
  IF S = {} THEN << >>
  ELSE LET m == CHOOSE x \in S : \A y \in S : x <= y
       IN  <<m>> \o Ascending(S \ {m})

\* the calls of the lambda handed to the typed wrapper of one channel, in
\* order: each carries the channel, the time and the value the lambda stores
ChannelEmissions(anim, c, iterationMS) ==
  IF Len(anim[c]) = 0 THEN << >>
  ELSE LET type == get_type(anim[c][1].mValue)
       IN  CASE type = "BOOLEAN" ->
                  processChannelAsBoolean(anim, c, iterationMS).calls
             [] type = "BIG_INTEGER" ->
                  processChannelAsInteger(anim, c, iterationMS).calls
             [] type = "DOUBLE" ->
                  processChannelAsDouble(anim, c, iterationMS).calls

\* size_t index = static_cast<size_t>(currentTimeMS / iterationMS)
TickIndex(currentTimeMS, iterationMS) == TimeTruncDiv(currentTimeMS, iterationMS)

\* ChannelValueMap::emplace: the first value stored under a channel stays
MapEmplace(valuesByChannel, c, value) ==
  IF c \in DOMAIN valuesByChannel THEN valuesByChannel
  ELSE [k \in (DOMAIN valuesByChannel) \cup {c} |->
          IF k = c THEN value ELSE valuesByChannel[k]]

\* if (index < allValues.size()) allValues[index].emplace(channel, value)
StoreAt(allValues, numSamples, index, e) ==
  IF index < numSamples
  THEN [allValues EXCEPT ![index] = MapEmplace(@, e.channel, e.value)]
  ELSE allValues

\* allValues after the emissions i.. have run the lambda of their channel
RECURSIVE StoreEmissions(_, _, _, _, _)
StoreEmissions(allValues, numSamples, emissions, i, iterationMS) ==
  IF i > Len(emissions) THEN allValues
  ELSE Only({StoreEmissions(stored, numSamples, emissions, i + 1, iterationMS) :
               stored \in {Only({StoreAt(allValues, numSamples, index, emissions[i]) :
                                   index \in {TickIndex(emissions[i].time,
                                                        iterationMS)}})}})

\* every channel's emissions, channel after channel in key order
AllEmissions(anim, iterationMS) ==
  Only({Flatten([k \in 1..Len(channels) |->
                   ChannelEmissions(anim, channels[k], iterationMS)]) :
          channels \in {Ascending(DOMAIN anim)}})

\* the callback loop over allValues
Deliver(allValues, numSamples, iterationMS) ==
  [i \in 1..numSamples |->
     [kind |-> "callback", iteration |-> i - 1,
      time |-> TimeMulInt(iterationMS, i - 1),
      values |-> allValues[i - 1]]]

\* the body of processAllChannels once numSamples is computed
SampleAll(anim, iterationMS, numSamples, emissions) ==
  [numSamples |-> numSamples,
   events |-> Only({emissions \o Deliver(allValues, numSamples, iterationMS) :
                      allValues \in {StoreEmissions([i \in 0..(numSamples - 1) |-> << >>],
                                                    numSamples, emissions, 1,
                                                    iterationMS)}})]

\* variant: one callback more than the window holds whole ticks
processAllChannels_extra_tick(anim, iterationMS, startMS, endMS) ==
  Only({SampleAll(anim, iterationMS, numSamples, emissions) :
          numSamples \in {Only({TimeTruncDiv(span, iterationMS) + 1 :
                                  span \in {TimeSub(endMS, startMS)}})},
          emissions \in {AllEmissions(anim, iterationMS)}})

\* events: every call of a channel's emission lambda ("emit") and of processFunc
\* ("callback"), in the order the calls are made.  The function has no return
\* statement; nothing is modelled of its result.
processAllChannels(anim, iterationMS, startMS, endMS) ==
  Only({SampleAll(anim, iterationMS, numSamples, emissions) :
          numSamples \in {Only({TimeTruncDiv(span, iterationMS) :
                                  span \in {TimeSub(endMS, startMS)}})},
          emissions \in {AllEmissions(anim, iterationMS)}})

---------------------------------------------------------------------------
(* Utils.cpp *)

get_buffer_duration_ms(buffer) ==
  Only({Only({Only({TimeMulInt(frames, 1000) :
                      frames \in {TimeDivInt(half, WAV_SAMPLE_RATE_HZ)}}) :
                half \in {TimeDivInt(size, 2)}}) :
          size \in {TimeOfInt(Len(buffer))}})

get_buffer_pos_from_ms(ms) ==
  Only({IF r % 2 = 1 THEN r + 1 ELSE r :
          r \in {Only({Only({Only({TimeTrunc(stereo) :
                                     stereo \in {TimeMulInt(frames, 2)}}) :
                               frames \in {TimeMulInt(seconds, 44100)}}) :
                         seconds \in {TimeDivInt(ms, 1000)}})}})

---------------------------------------------------------------------------
(* Effects.cpp *)

\* static_cast<int16_t>((double(effect) - base) * dry_wet + base)
\* variant: the cross-fade runs away from the effect value
fader_away(base, effect, dry_wet) ==
  ToInt16(Trunc(RAdd(RMul(RSub(R(base), R(effect)), dry_wet), R(base))))

fader(base, effect, dry_wet) ==
  ToInt16(Trunc(RAdd(RMul(RSub(R(effect), R(base)), dry_wet), R(base))))

\* variant: the threshold is 32767 * cutoff rounded to the nearest integer
transform_distort_rounded(input_val, valuesByChannel) ==
  LET input_value == ToInt16(input_val)
  IN  IF 0 \notin DOMAIN valuesByChannel \/ 1 \notin DOMAIN valuesByChannel
      THEN ToUint16(input_value)
      ELSE LET dryWet == as_double(valuesByChannel[0])
               cutoff == as_double(valuesByChannel[1])
           IN  IF dryWet = R(0) THEN ToUint16(input_value)
               ELSE LET cutoffTop    == ToInt16(Round(RMul(R(AMP_MAX), cutoff)))
                        cutoffBottom == ToInt16(-cutoffTop)
                        clippedTop   == IF input_value > cutoffTop
                                        THEN cutoffTop ELSE input_value
                        output_value == IF clippedTop < cutoffBottom
                                        THEN cutoffBottom ELSE clippedTop
                    IN  ToUint16(fader(input_value, output_value, dryWet))

\* variant: a snapshot without channel 1 is read as cutoff 0
transform_distort_default_cutoff(input_val, valuesByChannel) ==
  LET input_value == ToInt16(input_val)
  IN  IF 0 \notin DOMAIN valuesByChannel
      THEN ToUint16(input_value)
      ELSE LET dryWet == as_double(valuesByChannel[0])
               cutoff == IF 1 \in DOMAIN valuesByChannel
                         THEN as_double(valuesByChannel[1]) ELSE R(0)
           IN  IF dryWet = R(0) THEN ToUint16(input_value)
               ELSE LET cutoffTop    == ToInt16(Trunc(RMul(R(AMP_MAX), cutoff)))
                        cutoffBottom == ToInt16(-cutoffTop)
                        clippedTop   == IF input_value > cutoffTop
                                        THEN cutoffTop ELSE input_value
                        output_value == IF clippedTop < cutoffBottom
                                        THEN cutoffBottom ELSE clippedTop
                    IN  ToUint16(fader(input_value, output_value, dryWet))

transform_distort(input_val, valuesByChannel) ==
  LET input_value == ToInt16(input_val)
  IN  IF 0 \notin DOMAIN valuesByChannel \/ 1 \notin DOMAIN valuesByChannel
      THEN ToUint16(input_value)
      ELSE LET dryWet == as_double(valuesByChannel[0])
               cutoff == as_double(valuesByChannel[1])
           IN  IF dryWet = R(0) THEN ToUint16(input_value)
               ELSE LET cutoffTop    == ToInt16(Trunc(RMul(R(AMP_MAX), cutoff)))
                        cutoffBottom == ToInt16(-cutoffTop)
                        clippedTop   == IF input_value > cutoffTop
                                        THEN cutoffTop ELSE input_value
                        output_value == IF clippedTop < cutoffBottom
                                        THEN cutoffBottom ELSE clippedTop
                    IN  ToUint16(fader(input_value, output_value, dryWet))

\* the lambda apply_effect hands to processAllChannels, on one callback
EffectTick(buffer, timeMS, valuesByChannel) ==
  Only({IF index + 1 >= Len(buffer) THEN buffer
        ELSE [buffer EXCEPT
                ![index + 1] = transform_distort(buffer[index + 1], valuesByChannel),
                ![index + 2] = transform_distort(buffer[index + 2], valuesByChannel)] :
          index \in {get_buffer_pos_from_ms(timeMS)}})

RECURSIVE EffectTicks(_, _, _)
EffectTicks(buffer, callbacks, i) ==
  IF i > Len(callbacks) THEN buffer
  ELSE Only({EffectTicks(next, callbacks, i + 1) :
               next \in {EffectTick(buffer, callbacks[i].time, callbacks[i].values)}})

\* effectType = DISTORT, the one effect there is
apply_effect(buffer, anim) ==
  Only({Only({[buffer |-> EffectTicks(buffer, callbacks, 1), events |-> run.events] :
                callbacks \in {SelectSeq(run.events, LAMBDA e : e.kind = "callback")}}) :
          run \in {Only({processAllChannels(anim, SAMPLE_MS, TimeOfInt(0), endMS) :
                           endMS \in {get_buffer_duration_ms(buffer)}})}})

---------------------------------------------------------------------------
(* lib.cpp *)

\* static bigint_t buffer_count = 0; static std::map<...> buffers;
NoBuffers ==
  /\ buffer_count = 0
  /\ buffers = [h \in {} |-> << >>]
  /\ handles_returned = << >>
  /\ handles_freed = {}
  /\ lib_calls = 0

\* the message set_buffer_not_found_err leaves in the Python error
set_buffer_not_found_err(buffer) == "Buffer " \o ToString(buffer) \o " not found."

\* variant: the lowest handle not in the registry is handed out again
gen_buffer_reuse(count, bufs) ==
  LET handle == CHOOSE h \in 1..(count + 1) :
                  /\ h \notin DOMAIN bufs
                  /\ \A g \in 1..(h - 1) : g \in DOMAIN bufs
  IN  [buffer_count |-> IF handle > count THEN handle ELSE count,
       buffers |-> [h \in DOMAIN bufs \cup {handle} |->
                      IF h = handle THEN << >> ELSE bufs[h]],
       handle |-> handle]

\* buffers[++buffer_count] = std::vector<uint16_t>(); the handle returned
gen_buffer(count, bufs) ==
  [buffer_count |-> count + 1,
   buffers |-> [h \in DOMAIN bufs \cup {count + 1} |->
                  IF h = count + 1 THEN << >> ELSE bufs[h]],
   handle |-> count + 1]

\* ms is a bigint_t; the product is a double
ms_to_buffer_index(ms) ==
  Only({IF r % 2 = 1 THEN r + 1 ELSE r :
          r \in {Only({Only({Only({TimeTrunc(stereo) :
                                     stereo \in {TimeMulInt(frames, 2)}}) :
                               frames \in {TimeMulInt(seconds, 44100)}}) :
                         seconds \in {TimeDivInt(TimeOfInt(ms), 1000)}})}})

clamp(val, low, high) ==
  IF RLess(val, low) THEN low ELSE IF RLess(high, val) THEN high ELSE val

\* enum class WaveType
WaveType == [Sine |-> 0, Saw |-> 1, Square |-> 2, Triangle |-> 3, Noise |-> 4]

\* wave_fn(n) for the wave type; freq_hz is a whole number here.
\* Sine, Triangle and Noise (sin, abs, a random engine) are outside the
\* modelled input domain.
wave_fn(wave_type, freq_hz, n) ==
  LET samples == 44100 \div freq_hz
  IN  CASE wave_type = WaveType.Saw    -> RSub(RMul(Rat((n \div 2) % samples, samples), R(2)), R(1))
        [] wave_type = WaveType.Square -> IF (n \div 2) % samples < samples \div 2
                                          THEN R(1) ELSE R(-1)

\* what static_cast<uint16_t>(double) leaves for a value out of the range of
\* uint16_t, where the cast is undefined: the low 16 bits of the truncated
\* value (conversion through a wider integer) or the nearest bound (a
\* saturating conversion)
CastOutcomes == {"wrap", "saturate"}

\* static_cast<uint16_t>(double)
CastToUint16(x, cast) ==
  LET t == Trunc(x)
  IN  IF 0 <= t /\ t <= 65535 THEN t
      ELSE IF cast = "wrap" THEN t % 65536
      ELSE IF t < 0 THEN 0 ELSE 65535

\* b.resize(n, 0)
Resize(b, n) == [i \in 1..n |-> IF i <= Len(b) THEN b[i] ELSE 0]

\* the value produce_wave adds to samples n and n + 1
WaveValue(n, start_index, attack_end_index, sustain_end_index, end_index, freq_hz, amp, wave_type, cast) ==
  LET attack_amp == IF n < attack_end_index
                    THEN clamp(Rat(n - start_index, attack_end_index - start_index),
                               R(0), R(1))
                    ELSE R(1)
      decay_amp  == IF n > sustain_end_index
                    THEN clamp(RSub(R(1), Rat(n - sustain_end_index,
                                              end_index - sustain_end_index)),
                               R(0), R(1))
                    ELSE R(1)
  IN  CastToUint16(RMul(RMul(RMul(attack_amp, decay_amp), amp),
                        wave_fn(wave_type, freq_hz, n)), cast)

\* buffers after the call and the result: "ok" for None, else the error set
produce_wave(bufs, buffer, attack_start_ms, attack_ms, sustain_duration_ms, decay_ms, freq_hz, amp, wave_type, cast) ==
  IF buffer \notin DOMAIN bufs
  THEN [buffers |-> bufs, result |-> set_buffer_not_found_err(buffer)]
  ELSE IF wave_type \notin {WaveType[name] : name \in DOMAIN WaveType}
  THEN [buffers |-> bufs, result |-> "Wave function not found"]
  ELSE Only({
         Only({
           \* for (n = start_index; n < end_index; n += 2): b[n] += value; b[n+1] += value
           [buffers |->
              [bufs EXCEPT ![buffer] =
                 [i \in 1..Len(b) |->
                    IF start_index <= i - 1 /\ i - 1 < end_index
                    THEN (b[i] + WaveValue((i - 1) - ((i - 1) % 2), start_index,
                                           attack_end_index, sustain_end_index,
                                           end_index, freq_hz, amp, wave_type, cast))
                         % 65536
                    ELSE b[i]]],
            result |-> "ok"] :
             b \in {IF Len(bufs[buffer]) < end_index
                    THEN Resize(bufs[buffer], end_index) ELSE bufs[buffer]}}) :
           start_index \in {ms_to_buffer_index(attack_start_ms)},
           attack_end_index \in {ms_to_buffer_index(attack_start_ms + attack_ms)},
           sustain_end_index \in {ms_to_buffer_index(attack_start_ms + attack_ms
                                                     + sustain_duration_ms)},
           end_index \in {ms_to_buffer_index(attack_start_ms + attack_ms
                                             + sustain_duration_ms + decay_ms)}})

get_buffer_bytes(bufs, buffer) ==
  IF buffer \notin DOMAIN bufs
  THEN [buffers |-> bufs, result |-> set_buffer_not_found_err(buffer)]
  ELSE [buffers |-> bufs, result |-> "ok", bytes |-> bufs[buffer]]

\* written: whether WavIO::write_wav could write the file
dump_buffer(bufs, buffer, written) ==
  IF buffer \notin DOMAIN bufs
  THEN [buffers |-> bufs, result |-> "Buffer not found"]
  ELSE IF ~written THEN [buffers |-> bufs, result |-> "Dump failed"]
  ELSE [buffers |-> bufs, result |-> "ok"]

free_buffer(bufs, buffer) ==
  IF buffer \notin DOMAIN bufs
  THEN [buffers |-> bufs, result |-> set_buffer_not_found_err(buffer)]
  ELSE [buffers |-> [h \in DOMAIN bufs \ {buffer} |-> bufs[h]], result |-> "ok"]

\* the copying loop of sample_buffer from (tar_n, src_n) on: iteration k adds the
\* source elements src_n + 2k, src_n + 2k + 1 to the target elements tar_n + 2k,
\* tar_n + 2k + 1 while the four conditions of the for statement hold, and the
\* conditions, once false, stay false. An element is read as the loop left it:
\* when target and source are one buffer and the target range lies ahead of the
\* source range, a read at or after tar_n sees the sum written earlier.
SampleLoop(bufs, target, source, tar_n, src_n, tar_buf_end_index, src_buf_end_index) ==
  LET Runs(k) == /\ tar_n + 2 * k + 1 < tar_buf_end_index
                 /\ src_n + 2 * k + 1 < src_buf_end_index
                 /\ tar_n + 2 * k + 1 < Len(bufs[target])
                 /\ src_n + 2 * k + 1 < Len(bufs[source])
      iterations == Cardinality({k \in 0..Len(bufs[target]) : Runs(k)})
      Written(j) == tar_n <= j /\ j < tar_n + 2 * iterations
      after[j \in 0..(Len(bufs[target]) - 1)] ==
        IF ~Written(j) THEN bufs[target][j + 1]
        ELSE LET from == j - tar_n + src_n
             IN  (bufs[target][j + 1]
                  + (IF target = source /\ from < j /\ Written(from)
                     THEN after[from] ELSE bufs[source][from + 1])) % 65536
  IN  [bufs EXCEPT ![target] = [i \in 1..Len(bufs[target]) |-> after[i - 1]]]

\* The sizes and indices are size_t; on the buffers of the modelled calls a
\* source holds at least two samples, so size - 2 does not wrap.
sample_buffer(bufs, target_buffer, source_buffer, source_buffer_start_ms, target_buffer_start_ms, duration_ms) ==
  IF target_buffer \notin DOMAIN bufs
  THEN [buffers |-> bufs, result |-> set_buffer_not_found_err(target_buffer)]
  ELSE IF source_buffer \notin DOMAIN bufs
  THEN [buffers |-> bufs, result |-> set_buffer_not_found_err(source_buffer)]
  ELSE IF Len(bufs[source_buffer]) = 0 THEN [buffers |-> bufs, result |-> "ok"]
  ELSE Only({
         LET size == Len(bufs[source_buffer])
             src_buf_start_index == IF start0 + 1 >= size THEN size - 2 ELSE start0
             src_buf_end_index   == IF end0 + 1 >= size THEN size - 2 ELSE end0
             tar_buf_end_index   == src_buf_end_index - src_buf_start_index
                                    + tar_buf_start_index
         IN  Only({[buffers |-> SampleLoop(resized, target_buffer, source_buffer,
                                           tar_buf_start_index, src_buf_start_index,
                                           tar_buf_end_index, src_buf_end_index),
                    result |-> "ok"] :
                     resized \in {IF tar_buf_end_index + 1 >= Len(bufs[target_buffer])
                                  THEN [bufs EXCEPT ![target_buffer] =
                                          Resize(@, tar_buf_end_index + 1)]
                                  ELSE bufs}}) :
           start0 \in {ms_to_buffer_index(source_buffer_start_ms)},
           end0 \in {IF duration_ms = 0 THEN Len(bufs[source_buffer]) - 2
                     ELSE ms_to_buffer_index(source_buffer_start_ms + duration_ms)},
           tar_buf_start_index \in {ms_to_buffer_index(target_buffer_start_ms)}})

---------------------------------------------------------------------------
(* Inputs *)

\* most insertKeyFrame calls of one run
MaxInserts == 2

\* most loop iterations a sampler or effect call of a run spends on its scans
MaxScan == 20

\* keyframe times offered to insertKeyFrame: 0..MaxTime sample periods
MaxTime == 2

\* tick intervals offered to processAllChannels: 1..MaxTick sample periods
MaxTick == 2

\* window end offered to processAllChannels, in sample periods
MaxEnd == 4

Samples(k) == TimeMulInt(SAMPLE_MS, k)

D(n, d) == VariantDouble(Rat(n, d))

ChannelInputs == {0, 1}

\* (interpolation_type, value) of the keyframes offered to insertKeyFrame
ModeInputs == {<<"Constant", D(0, 1)>>, <<"Linear", D(0, 1)>>, <<"Linear", D(1, 1)>>}

KeyFrameInputs ==
  {KeyFrame(c, Samples(t), mv[1], mv[2]) :
     c \in ChannelInputs, t \in 0..MaxTime, mv \in ModeInputs}

\* an animation from its keyframes, given in the order they are inserted
RECURSIVE Build(_, _)
Build(anim, keyframes) ==
  IF keyframes = << >> THEN anim
  ELSE Build(insertKeyFrame(anim, Head(keyframes)), Tail(keyframes))

\* the animations of the documented scenarios
RampAnimation ==
  Build(EmptyAnimation, <<KeyFrame(0, TimeOfInt(0), "Linear", D(0, 1)),
                          KeyFrame(0, TimeOfInt(100), "Linear", D(10, 1))>>)

HoldAnimation ==
  Build(EmptyAnimation, <<KeyFrame(0, TimeOfInt(0), "Constant", D(5, 1)),
                          KeyFrame(0, TimeOfInt(10), "Constant", D(9, 1))>>)

EndToEndAnimation ==
  Build(EmptyAnimation, <<KeyFrame(0, TimeOfInt(0), "Linear", D(1, 1)),
                          KeyFrame(1, TimeOfInt(0), "Linear", D(1, 4))>>)

SplineAnimation ==
  Build(EmptyAnimation, <<KeyFrame(0, Samples(0), "Cubic", D(0, 1)),
                          KeyFrame(0, Samples(3), "Cubic", D(1, 1)),
                          KeyFrame(0, Samples(6), "Cubic", D(1, 2))>>)

CubicAnimation ==
  Build(EmptyAnimation, <<KeyFrame(0, Samples(0), "Cubic", D(0, 1)),
                          KeyFrame(0, Samples(1), "Cubic", D(1, 1)),
                          KeyFrame(0, Samples(3), "Linear", D(1, 2)),
                          KeyFrame(0, Samples(4), "Cubic", D(1, 1))>>)

TypedAnimation ==
  Build(EmptyAnimation, <<KeyFrame(2, Samples(0), "Linear", VariantInt(0)),
                          KeyFrame(2, Samples(4), "Linear", VariantInt(3)),
                          KeyFrame(3, Samples(1), "Linear", VariantBool(FALSE)),
                          KeyFrame(3, Samples(4), "Linear", VariantBool(TRUE))>>)

\* keyframes a whole number of milliseconds apart, for a tick of 1/3 ms
ThirdsAnimation ==
  Build(EmptyAnimation, <<KeyFrame(0, TimeOfInt(0), "Linear", D(0, 1)),
                          KeyFrame(0, TimeOfInt(1), "Linear", D(1, 1)),
                          KeyFrame(0, TimeOfInt(2), "Linear", D(0, 1))>>)

CosineAnimation ==
  Build(EmptyAnimation, <<KeyFrame(0, Samples(0), "Cosine", D(0, 1)),
                          KeyFrame(0, Samples(2), "Cosine", D(1, 1)),
                          KeyFrame(0, Samples(5), "Cosine", D(1, 4)),
                          KeyFrame(0, Samples(6), "Cosine", D(0, 1))>>)

\* an integer falling through -3/2 and a boolean falling through 1/2
RoundingAnimation ==
  Build(EmptyAnimation, <<KeyFrame(2, Samples(0), "Linear", VariantInt(0)),
                          KeyFrame(2, Samples(4), "Linear", VariantInt(-3)),
                          KeyFrame(3, Samples(0), "Linear", VariantBool(TRUE)),
                          KeyFrame(3, Samples(2), "Linear", VariantBool(FALSE))>>)

\* dry/wet on channel 0 from dw0 to dw1 over [0, t0) and cutoff on channel 1
\* from cut0 to cut1 over [0, t1), times in sample periods
DistortAnimation(dw0, dw1, t0, cut0, cut1, t1) ==
  Build(EmptyAnimation, <<KeyFrame(0, Samples(0), "Linear", VariantDouble(dw0)),
                          KeyFrame(0, Samples(t0), "Linear", VariantDouble(dw1)),
                          KeyFrame(1, Samples(0), "Linear", VariantDouble(cut0)),
                          KeyFrame(1, Samples(t1), "Linear", VariantDouble(cut1))>>)

DistortAnimations ==
  {DistortAnimation(dw, dw, t0, cut, cut, t1) :
     dw \in {Rat(0, 1), Rat(1, 4), Rat(1, 1)},
     cut \in {Rat(0, 1), Rat(1, 4), Rat(1, 1)},
     t0 \in {2, 8}, t1 \in {3, 8}}
  \cup {DistortAnimation(Rat(0, 1), Rat(1, 1), 4, Rat(1, 1), Rat(0, 1), 4),
        DistortAnimation(Rat(0, 1), Rat(0, 1), 2, Rat(1, 4), Rat(1, 4), 1)}

\* a channel whose timeline holds no keyframe (an entry made by the caller
\* in the map itself: insertKeyFrame makes none), next to a channel that
\* holds four
EmptyTimelineAnimation == CubicAnimation @@ (4 :> << >>)

InitAnimations ==
  {EmptyAnimation, RampAnimation, HoldAnimation, EndToEndAnimation,
   CubicAnimation, SplineAnimation, CosineAnimation, ThirdsAnimation,
   TypedAnimation, RoundingAnimation,
   EmptyTimelineAnimation}
  \cup DistortAnimations

\* (channel, iterationMS) offered to the typed wrappers of processChannel:
\* the channels the animation holds and channel 4, which only
\* EmptyTimelineAnimation holds, with no keyframe
ScanInputs(anim) ==
  {[channel |-> c, iterationMS |-> Samples(k)] :
     c \in DOMAIN anim \cup {4}, k \in 1..MaxTick}

\* most buffers gen_buffer makes in one run
MaxBuffers == 2

\* most calls of the buffer operations of lib.cpp in one run
MaxCalls == 4

\* the handles offered to the buffer operations: held, freed or never made
Handles == 1..MaxBuffers

\* produce_wave arguments: one millisecond of a wave of four frames per
\* period whose second half is negative, and a wave type there is none of
WaveInputs ==
  {[attack_start_ms |-> 0, attack_ms |-> 0, sustain_duration_ms |-> 1, decay_ms |-> 0,
    freq_hz |-> 11025, amp |-> R(1000), wave_type |-> w] : w \in {WaveType.Square, 5}}

\* sample_buffer arguments
SampleInputs ==
  {[source_buffer_start_ms |-> 0, target_buffer_start_ms |-> t, duration_ms |-> d] :
     t \in {0, 1}, d \in {0, 1}}

\* (iterationMS, startMS, endMS) offered to processAllChannels
CallInputs ==
  {[iterationMS |-> Samples(k), startMS |-> Samples(s), endMS |-> Samples(e)] :
     k \in 1..MaxTick, s \in {0, 1}, e \in {MaxEnd}}
  \cup {[iterationMS |-> TimeOfInt(10), startMS |-> TimeOfInt(0), endMS |-> TimeOfInt(100)],
        [iterationMS |-> TimeOfInt(1), startMS |-> TimeOfInt(0), endMS |-> TimeOfInt(10)],
        [iterationMS |-> TimeDivInt(TimeOfInt(1), 3), startMS |-> TimeOfInt(0),
         endMS |-> TimeOfInt(3)]}

\* buffers offered to apply_effect
BufferInputs ==
  {<< >>,
   [i \in 1..8 |-> 20000],
   [i \in 1..6 |-> 20000],
   <<20000, 45536, 32768, 65535, 8191, 57344, 0, 1>>,
   <<20000, 40000, 12345>>}

---------------------------------------------------------------------------
(* State machine *)

RECURSIVE SumLen(_, _)
SumLen(anim, S) ==
  IF S = {} THEN 0
  ELSE LET c == CHOOSE x \in S : TRUE IN Len(anim[c]) + SumLen(anim, S \ {c})

NumKeyFrames(anim) == SumLen(anim, DOMAIN anim)

\* all keyframes of a channel hold one kind of value (the caller's obligation)
SameKind(anim, keyframe) ==
  keyframe.mChannel \in DOMAIN anim =>
    \A i \in 1..Len(anim[keyframe.mChannel]) :
      get_type(anim[keyframe.mChannel][i].mValue) = get_type(keyframe.mValue)

\* channels 0 and 1 hold doubles, as transform_distort reads them
DistortChannelsAreDoubles(anim) ==
  \A c \in {0, 1} \cap DOMAIN anim :
    \A i \in 1..Len(anim[c]) : get_type(anim[c][i].mValue) = "DOUBLE"

\* the iterations the scans of a call with this tick take, in real numbers:
\* for each channel its span over the tick, rounded up
RECURSIVE ScanLength(_, _, _)
ScanLength(anim, S, iterationMS) ==
  IF S = {} THEN 0
  ELSE LET c    == CHOOSE x \in S : TRUE
           span == RDiv(RSub(anim[c][Len(anim[c])].mTimeMS.val, anim[c][1].mTimeMS.val),
                        iterationMS.val)
       IN  (IF Len(anim[c]) = 0 THEN 0
            ELSE IF span.d = 1 THEN span.n ELSE (span.n \div span.d) + 1)
           + ScanLength(anim, S \ {c}, iterationMS)

\* animation: the caller's Animation, built by `inserts` calls of insertKeyFrame;
\* last: the last call made on it; for a sampler or effect call, with its
\* arguments and what it did
Init ==
  /\ animation \in InitAnimations
  /\ inserts = NumKeyFrames(animation)
  /\ last = [op |-> "none"]
  /\ NoBuffers

\* A run builds an animation and ends with its first sampler or effect call:
\* both read the animation and leave it as it is, so a later call would see
\* what the first one saw.
Building == last.op \in {"none", "insertKeyFrame"}

InsertKeyFrame ==
  /\ Building
  /\ inserts < MaxInserts
  /\ \E keyframe \in KeyFrameInputs :
       /\ SameKind(animation, keyframe)
       /\ animation' = insertKeyFrame(animation, keyframe)
       /\ last' = [op |-> "insertKeyFrame"]
  /\ inserts' = inserts + 1
  /\ UNCHANGED registry

ProcessAllChannels ==
  /\ Building
  /\ \E call \in CallInputs :
       /\ ScanLength(animation, DOMAIN animation, call.iterationMS) <= MaxScan
       /\ LET run == processAllChannels(animation, call.iterationMS, call.startMS, call.endMS)
          IN  last' = [op |-> "processAllChannels", iterationMS |-> call.iterationMS,
                       startMS |-> call.startMS, endMS |-> call.endMS,
                       events |-> run.events]
  /\ UNCHANGED <<animation, inserts, registry>>

ApplyEffect ==
  /\ Building
  /\ DistortChannelsAreDoubles(animation)
  /\ ScanLength(animation, DOMAIN animation, SAMPLE_MS) <= MaxScan
  /\ \E buffer \in BufferInputs :
       LET run == apply_effect(buffer, animation)
       IN  last' = [op |-> "apply_effect", input |-> buffer,
                    buffer |-> run.buffer, events |-> run.events]
  /\ UNCHANGED <<animation, inserts, registry>>

\* the wrapper called is the one for the values the channel holds
WrapperFits(anim, channel, type) ==
  (channel \in DOMAIN anim /\ Len(anim[channel]) > 0)
  => get_type(anim[channel][1].mValue) = type

ProcessChannel ==
  /\ Building
  /\ \E scan \in ScanInputs(animation), type \in ValueType :
       /\ WrapperFits(animation, scan.channel, type)
       /\ ScanLength(animation, {scan.channel} \cap DOMAIN animation,
                     scan.iterationMS) <= MaxScan
       /\ \E run \in {CASE type = "BOOLEAN" ->
                           processChannelAsBoolean(animation, scan.channel,
                                                   scan.iterationMS)
                         [] type = "BIG_INTEGER" ->
                           processChannelAsInteger(animation, scan.channel,
                                                   scan.iterationMS)
                         [] type = "DOUBLE" ->
                           processChannelAsDouble(animation, scan.channel,
                                                  scan.iterationMS)} :
            last' = [op |-> "processChannel", channel |-> scan.channel,
                     type |-> type, iterationMS |-> scan.iterationMS,
                     found |-> run.found, passes |-> run.passes,
                     calls |-> run.calls]
  /\ UNCHANGED <<animation, inserts, registry>>

Next == InsertKeyFrame \/ ProcessAllChannels \/ ApplyEffect

Spec == Init /\ [][Next]_vars

\* the calls of the buffer operations on a fresh registry
LibInit ==
  /\ animation = EmptyAnimation
  /\ inserts = 0
  /\ last = [op |-> "none"]
  /\ NoBuffers

\* a call of a buffer operation that leaves the registry's keys as they are
LibCall(op, buffer, run) ==
  /\ lib_calls < MaxCalls
  /\ lib_calls' = lib_calls + 1
  /\ buffers' = run.buffers
  /\ last' = [op |-> op, buffer |-> buffer, result |-> run.result]
  /\ UNCHANGED <<animation, inserts, buffer_count, handles_returned, handles_freed>>

GenBuffer ==
  /\ lib_calls < MaxCalls
  /\ buffer_count < MaxBuffers
  /\ \E run \in {gen_buffer(buffer_count, buffers)} :
       /\ buffer_count' = run.buffer_count
       /\ buffers' = run.buffers
       /\ handles_returned' = Append(handles_returned, run.handle)
       /\ last' = [op |-> "gen_buffer", buffer |-> run.handle, result |-> "ok"]
  /\ lib_calls' = lib_calls + 1
  /\ UNCHANGED <<animation, inserts, handles_freed>>

FreeBuffer ==
  /\ lib_calls < MaxCalls
  /\ \E buffer \in Handles :
       \E run \in {free_buffer(buffers, buffer)} :
         /\ buffers' = run.buffers
         /\ handles_freed' = IF run.result = "ok" THEN handles_freed \cup {buffer}
                             ELSE handles_freed
         /\ last' = [op |-> "free_buffer", buffer |-> buffer, result |-> run.result]
  /\ lib_calls' = lib_calls + 1
  /\ UNCHANGED <<animation, inserts, buffer_count, handles_returned>>

ProduceWave ==
  \E buffer \in Handles, wave \in WaveInputs, cast \in CastOutcomes :
    \E run \in {produce_wave(buffers, buffer, wave.attack_start_ms, wave.attack_ms,
                              wave.sustain_duration_ms, wave.decay_ms, wave.freq_hz,
                              wave.amp, wave.wave_type, cast)} :
      LibCall("produce_wave", buffer, run)

SampleBuffer ==
  \E target \in Handles, source \in Handles, in \in SampleInputs :
    \E run \in {sample_buffer(buffers, target, source, in.source_buffer_start_ms,
                               in.target_buffer_start_ms, in.duration_ms)} :
      /\ lib_calls < MaxCalls
      /\ lib_calls' = lib_calls + 1
      /\ buffers' = run.buffers
      /\ last' = [op |-> "sample_buffer", buffer |-> target, source |-> source,
                  result |-> run.result]
      /\ UNCHANGED <<animation, inserts, buffer_count, handles_returned, handles_freed>>

GetBufferBytes ==
  \E buffer \in Handles :
    \E run \in {get_buffer_bytes(buffers, buffer)} :
      LibCall("get_buffer_bytes", buffer, run)

DumpBuffer ==
  \E buffer \in Handles, written \in BOOLEAN :
    \E run \in {dump_buffer(buffers, buffer, written)} :
      LibCall("dump_buffer", buffer, run)

LibNext ==
  \/ GenBuffer \/ FreeBuffer \/ ProduceWave \/ SampleBuffer
  \/ GetBufferBytes \/ DumpBuffer

LibSpec == LibInit /\ [][LibNext]_vars

\* the runs that end with a scan of one channel by a typed wrapper
ScanNext == InsertKeyFrame \/ ProcessChannel

ScanSpec == Init /\ [][ScanNext]_vars

---------------------------------------------------------------------------
(* Reading a finished call *)

Sampled == last.op \in {"processAllChannels", "apply_effect"}

Emits == SelectSeq(last.events, LAMBDA e : e.kind = "emit")

Callbacks == SelectSeq(last.events, LAMBDA e : e.kind = "callback")

EmitsOf(c) == SelectSeq(last.events, LAMBDA e : e.kind = "emit" /\ e.channel = c)

\* where in last.events the callback calls are
CallbackPositions == {i \in 1..Len(last.events) : last.events[i].kind = "callback"}

\* q rounded down
Floor(q) == q.n \div q.d

\* s clipped into [lo, hi]
Clip(s, lo, hi) == IF s > hi THEN hi ELSE IF s < lo THEN lo ELSE s

\* the samples of the frame that the callback of iteration k works on
FrameOf(k) == {2 * k + 1, 2 * k + 2}

InBuffer(k) == 2 * k + 2 <= Len(last.input)

HasDistortChannels(values) == 0 \in DOMAIN values /\ 1 \in DOMAIN values

---------------------------------------------------------------------------
(* C1 *)

\* the keyframes a channel's timeline holds at a time
StoredAt(anim, channel, time_ms) ==
  IF channel \in DOMAIN anim
  THEN SelectSeq(anim[channel], LAMBDA k : k.mTimeMS = time_ms)
  ELSE << >>

\* C1: when insertKeyFrame is called with a (channel, time) at which an
\* earlier insertion already stored a keyframe, the keyframe stored there
\* afterwards is the later one (its mode and value), and the timeline holds
\* exactly one entry at that time.
C1_InsertOverwrites ==
  [][\A keyframe \in KeyFrameInputs :
       (/\ last'.op = "insertKeyFrame"
        /\ animation' = insertKeyFrame(animation, keyframe)
        /\ StoredAt(animation, keyframe.mChannel, keyframe.mTimeMS) # << >>)
       => LET stored == StoredAt(animation', keyframe.mChannel, keyframe.mTimeMS)
          IN  /\ Len(stored) = 1
              /\ stored[1].mInterpolation = keyframe.mInterpolation
              /\ stored[1].mValue = keyframe.mValue]_vars

---------------------------------------------------------------------------
(* C2 *)

\* C2: in processAllChannels over a window [0, end), a channel holding exactly
\* one keyframe, at t = 0 with value v, has the entry v in every delivered
\* snapshot, and a channel with no keyframe has an entry in none.
C2_SingleKeyFrameHeld ==
  (last.op = "processAllChannels" /\ last.startMS = TimeOfInt(0))
  => \A k \in 1..Len(Callbacks) :
       /\ \A c \in DOMAIN animation :
            (Len(animation[c]) = 1 /\ animation[c][1].mTimeMS = TimeOfInt(0))
            => /\ c \in DOMAIN Callbacks[k].values
               /\ Callbacks[k].values[c] = animation[c][1].mValue
       /\ \A c \in DOMAIN Callbacks[k].values :
            c \in DOMAIN animation /\ Len(animation[c]) > 0

---------------------------------------------------------------------------
(* C3 *)

\* C3: apply_effect (DISTORT) on a buffer of 8 samples all 20000, with
\* channel 0 = {(0, 1.0, Linear)} and channel 1 = {(0, 0.25, Linear)}, leaves
\* every one of the 8 samples equal to 8192.
C3_EndToEnd ==
  (/\ last.op = "apply_effect"
   /\ animation = EndToEndAnimation
   /\ last.input = [i \in 1..8 |-> 20000])
  => last.buffer = [i \in 1..8 |-> 8192]

---------------------------------------------------------------------------
(* C4 *)

\* the claimed result of the transform, as a rational: the sample cross-faded
\* toward its clipping at threshold T
CrossFade(s, T, dry_wet) ==
  RAdd(R(s), RMul(R(Clip(s, -T, T) - s), dry_wet))

\* the snapshots C4 is about: both channels, dry_wet in (0, 1], cutoff in [0, 1]
InDistortRange(values) ==
  /\ HasDistortChannels(values)
  /\ RLess(R(0), as_double(values[0])) /\ RLeq(as_double(values[0]), R(1))
  /\ RLeq(R(0), as_double(values[1])) /\ RLeq(as_double(values[1]), R(1))

---------------------------------------------------------------------------
(* C5 *)

\* the snapshots on which transform_distort is to pass the sample through
PassesThrough(values) ==
  \/ 0 \notin DOMAIN values
  \/ 1 \notin DOMAIN values
  \/ as_double(values[0]) = R(0)

\* C5: in apply_effect with DISTORT, the samples of a tick whose snapshot
\* lacks channel 0 or channel 1, or holds dry_wet = 0, keep their 16-bit
\* value; when every tick holds dry_wet = 0 the whole buffer is unchanged.
C5_DistortPassThrough ==
  last.op = "apply_effect"
  => /\ \A k \in 1..Len(Callbacks) :
          (InBuffer(k - 1) /\ PassesThrough(Callbacks[k].values))
          => \A i \in FrameOf(k - 1) : last.buffer[i] = last.input[i]
     /\ (\A k \in 1..Len(Callbacks) :
           /\ 0 \in DOMAIN Callbacks[k].values
           /\ as_double(Callbacks[k].values[0]) = R(0))
        => last.buffer = last.input

\* dry_wet = 0 at every tick of a buffer whose samples a cutoff of 1/4 would
\* clip, and a last tick whose snapshot has lost channel 1
C5_Witness ==
  /\ last.op = "apply_effect"
  /\ last.input = [i \in 1..6 |-> 20000]
  /\ Cardinality(CallbackPositions) >= 2
  /\ \A k \in CallbackPositions :
       /\ 0 \in DOMAIN last.events[k].values
       /\ as_double(last.events[k].values[0]) = R(0)
  /\ \E k \in CallbackPositions :
       /\ 1 \in DOMAIN last.events[k].values
       /\ as_double(last.events[k].values[1]) = Rat(1, 4)
  /\ \E k \in CallbackPositions : 1 \notin DOMAIN last.events[k].values
  /\ last.buffer = last.input

---------------------------------------------------------------------------
(* C6 *)

\* C6: with dry_wet = 1 and cutoff = 0 in the snapshot, the transform of
\* every sample is 0.
C6_DistortFullClip ==
  last.op = "apply_effect"
  => \A k \in 1..Len(Callbacks) :
       LET values == Callbacks[k].values
       IN  (/\ InBuffer(k - 1)
            /\ HasDistortChannels(values)
            /\ as_double(values[0]) = R(1)
            /\ as_double(values[1]) = R(0))
           => \A i \in FrameOf(k - 1) : last.buffer[i] = 0

\* a positive, a negative and the most negative sample are forced to 0
C6_Witness ==
  /\ last.op = "apply_effect"
  /\ \E k \in 1..Len(Callbacks) :
       /\ InBuffer(k - 1)
       /\ HasDistortChannels(Callbacks[k].values)
       /\ as_double(Callbacks[k].values[0]) = R(1)
       /\ as_double(Callbacks[k].values[1]) = R(0)
       /\ last.input[2 * k - 1] = 32768
       /\ last.input[2 * k] = 65535
       /\ last.buffer[2 * k - 1] = 0
       /\ last.buffer[2 * k] = 0
  /\ last.input[1] = 20000 /\ last.buffer[1] = 0

---------------------------------------------------------------------------
(* C7 *)

\* channels holding exactly two keyframes, both Linear, of doubles
TwoLinear(c) ==
  /\ c \in DOMAIN animation
  /\ Len(animation[c]) = 2
  /\ \A i \in 1..2 : /\ animation[c][i].mInterpolation = "Linear"
                     /\ get_type(animation[c][i].mValue) = "DOUBLE"

\* v0 + (v1 - v0) * (t - t0) / (t1 - t0)
OnLine(t0, v0, t1, v1, t) ==
  RAdd(v0, RDiv(RMul(RSub(v1, v0), RSub(t, t0)), RSub(t1, t0)))

\* C7: for a channel with two Linear keyframes (t0, v0), (t1, v1), every value
\* emitted at a time t in [t0, t1) is v0 + (v1 - v0) * (t - t0) / (t1 - t0);
\* A = (0, 0), B = (100, 10) sampled with tick 10 over [0, 100) gives ten
\* snapshots holding 0, 1, ..., 9.
C7_LinearRamp ==
  /\ Sampled =>
       \A c \in DOMAIN animation :
         TwoLinear(c) =>
           LET A == animation[c][1]
               B == animation[c][2]
           IN  \A i \in 1..Len(last.events) :
                 LET e == last.events[i]
                 IN  (/\ e.kind = "emit" /\ e.channel = c
                      /\ TimeLeq(A.mTimeMS, e.time) /\ TimeLess(e.time, B.mTimeMS))
                     => e.value = VariantDouble(
                          OnLine(A.mTimeMS.val, as_double(A.mValue),
                                 B.mTimeMS.val, as_double(B.mValue), e.time.val))
  /\ (/\ last.op = "processAllChannels"
      /\ animation = RampAnimation
      /\ last.iterationMS = TimeOfInt(10) /\ last.startMS = TimeOfInt(0) /\ last.endMS = TimeOfInt(100))
     => /\ Len(Callbacks) = 10
        /\ \A k \in 1..10 : Callbacks[k].values = (0 :> VariantDouble(R(k - 1)))

C7_Witness ==
  /\ last.op = "processAllChannels"
  /\ animation = RampAnimation
  /\ last.iterationMS = TimeOfInt(10) /\ last.startMS = TimeOfInt(0) /\ last.endMS = TimeOfInt(100)
  /\ Len(EmitsOf(0)) = 10
  /\ Len(Callbacks) = 10

---------------------------------------------------------------------------
(* C8 *)

\* C8: on a segment whose start keyframe has mode Constant and value a, every
\* value emitted for a time in [start_time, end_time) is a, whatever the end
\* keyframe's value; keyframes (0, 5) and (10, 9) with tick 1 over [0, 10)
\* give 5 at each of the 10 ticks.
C8_ConstantHold ==
  /\ Sampled =>
       \A c \in DOMAIN animation :
         \A s \in 1..(Len(animation[c]) - 1) :
           animation[c][s].mInterpolation = "Constant" =>
             \A i \in 1..Len(last.events) :
               LET e == last.events[i]
               IN  (/\ e.kind = "emit" /\ e.channel = c
                    /\ TimeLeq(animation[c][s].mTimeMS, e.time)
                    /\ TimeLess(e.time, animation[c][s + 1].mTimeMS))
                   => e.value = animation[c][s].mValue
  /\ (/\ last.op = "processAllChannels"
      /\ animation = HoldAnimation
      /\ last.iterationMS = TimeOfInt(1) /\ last.startMS = TimeOfInt(0) /\ last.endMS = TimeOfInt(10))
     => /\ Len(Callbacks) = 10
        /\ \A k \in 1..10 : Callbacks[k].values = (0 :> D(5, 1))

C8_Witness ==
  /\ last.op = "processAllChannels"
  /\ animation = HoldAnimation
  /\ last.iterationMS = TimeOfInt(1) /\ last.startMS = TimeOfInt(0) /\ last.endMS = TimeOfInt(10)
  /\ Len(EmitsOf(0)) = 10
  /\ Len(Callbacks) = 10

---------------------------------------------------------------------------
(* C9 *)

\* C9: processAllChannels calls the callback floor((end_ms - start_ms) /
\* tick_ms) times, the i-th call (i = 0, 1, ...) with time i * tick_ms, and
\* no channel emission comes after a callback.
C9_CallbackCountAndOrder ==
  last.op = "processAllChannels"
  => /\ Cardinality(CallbackPositions) =
          Floor(RDiv(RSub(last.endMS.val, last.startMS.val), last.iterationMS.val))
     /\ \A i \in CallbackPositions :
          LET earlier == Cardinality({j \in CallbackPositions : j < i})
          IN  /\ last.events[i].iteration = earlier
              /\ last.events[i].time = TimeMulInt(last.iterationMS, earlier)
     /\ \A i \in CallbackPositions : \A j \in 1..Len(last.events) :
          last.events[j].kind = "emit" => j < i

\* a window that is no whole number of ticks, on an animation that emits
C9_Witness ==
  /\ last.op = "processAllChannels"
  /\ RDiv(RSub(last.endMS.val, last.startMS.val), last.iterationMS.val).d # 1
  /\ Len(Callbacks) >= 1
  /\ Len(Emits) >= 2
  /\ Cardinality(DOMAIN animation) = 2

---------------------------------------------------------------------------
(* C10 *)

\* C10: every snapshot delivered by processAllChannels over [start_ms, end_ms)
\* carries a time t with start_ms <= t < end_ms, and its values are the ones
\* the channels emitted for that time (an emission in [t, t + tick_ms)).
C10_SnapshotsInWindow ==
  last.op = "processAllChannels"
  => \A k \in CallbackPositions :
       LET t == last.events[k].time
       IN  /\ TimeLeq(last.startMS, t)
           /\ TimeLess(t, last.endMS)
           /\ \A c \in DOMAIN last.events[k].values :
                \E m \in 1..Len(last.events) :
                  LET e == last.events[m]
                  IN  /\ e.kind = "emit" /\ e.channel = c
                      /\ e.value = last.events[k].values[c]
                      /\ TimeLeq(t, e.time)
                      /\ TimeLess(e.time, TimeAdd(t, last.iterationMS))

---------------------------------------------------------------------------
(* C11 *)

Scanned == last.op = "processChannel"

\* C11: processChannelAsBoolean, AsInteger and AsDouble return false and make
\* no call of the emit callback when the animation has no entry for the
\* channel or the channel's timeline is empty, and return true for every
\* channel holding at least one keyframe.
C11_ScanReturnValue ==
  Scanned =>
    IF last.channel \in DOMAIN animation /\ Len(animation[last.channel]) >= 1
    THEN last.found
    ELSE ~last.found /\ last.calls = << >>

\* a scan of a channel the animation has no entry for
C11_WitnessAbsent ==
  Scanned /\ last.channel \notin DOMAIN animation /\ DOMAIN animation # {}
  /\ ~last.found

\* a scan of a channel whose timeline is empty
C11_Witness ==
  /\ Scanned
  /\ last.channel \in DOMAIN animation
  /\ Len(animation[last.channel]) = 0
  /\ ~last.found /\ last.calls = << >>

---------------------------------------------------------------------------
(* C12 *)

\* a scan of a timeline of at least two keyframes has finished
ScannedSegments ==
  /\ Scanned
  /\ last.channel \in DOMAIN animation
  /\ Len(animation[last.channel]) >= 2

\* the loop of a pass ran over [from, to): it started on `from`, stepped by
\* the tick, stayed below `to` and stopped only there
RanOver(pass, from, to) ==
  /\ pass.lastKeyFrames[2] = from
  /\ pass.lastKeyFrames[1] = to
  /\ pass.calls # << >>
  /\ pass.calls[1].time = from.mTimeMS
  /\ \A j \in 1..Len(pass.calls) : TimeLess(pass.calls[j].time, to.mTimeMS)
  /\ \A j \in 1..(Len(pass.calls) - 1) :
       pass.calls[j + 1].time = TimeAdd(pass.calls[j].time, last.iterationMS)
  /\ ~TimeLess(TimeAdd(pass.calls[Len(pass.calls)].time, last.iterationMS),
               to.mTimeMS)

\* C12: a scan of a timeline k1 < ... < kn (n >= 2) runs the interpolation
\* loop over each segment [k_i, k_{i+1}) exactly once, in ascending i, the
\* last segment in the flush passes; every other window position (the two
\* padded start positions and the second flush) has start_time = end_time
\* and emits nothing.
C12_SegmentCoverage ==
  ScannedSegments =>
    LET timeline == animation[last.channel]
        n        == Len(timeline)
    IN  /\ Len(last.passes) = n + 2
        /\ \A i \in 1..(n - 1) : RanOver(last.passes[i + 2], timeline[i], timeline[i + 1])
        /\ \A p \in {1, 2, n + 2} :
             /\ last.passes[p].lastKeyFrames[2].mTimeMS
                  = last.passes[p].lastKeyFrames[1].mTimeMS
             /\ last.passes[p].calls = << >>

\* four keyframes: three segments, the middle one of two ticks, the last one
\* run by the first flush pass
C12_Witness ==
  /\ ScannedSegments
  /\ Len(animation[last.channel]) = 4
  /\ Len(last.passes[4].calls) = 2
  /\ Len(last.passes[5].calls) >= 1
  /\ last.passes[6].calls = << >>

---------------------------------------------------------------------------
(* C13 *)

\* the value interpolated on segment i of a timeline at alpha, from the
\* keyframes around the segment
SegmentValue(type, timeline, i, alpha) ==
  LET n        == Len(timeline)
      Value(k) == keyFrameExtractorFunc(type, timeline[k].mValue)
      a        == Value(i)
      b        == Value(i + 1)
      before_a == Value(IF i = 1 THEN 1 ELSE i - 1)
      after_b  == Value(IF i + 1 = n THEN n ELSE i + 2)
      method   == timeline[i].mInterpolation
  IN  CASE method = "Constant" -> interpolate_constant(a, b, before_a, after_b, alpha)
        [] method = "Linear"   -> interpolate_linear(a, b, before_a, after_b, alpha)
        [] method = "Cubic"    -> interpolate_cubic(a, b, before_a, after_b, alpha)
        [] method = "Cosine"   -> interpolate_cosine(a, b, before_a, after_b, alpha)

\* C13: on segment [k_i, k_{i+1}) the scan interpolates with the mode of
\* k_i, a = value(k_i), b = value(k_{i+1}), before_a = value(k_{i-1}), or
\* value(k_1) when i = 1, and after_b = value(k_{i+2}), or value(k_n) when
\* i + 1 = n.
C13_FourPointContext ==
  ScannedSegments =>
    LET timeline == animation[last.channel]
    IN  \A i \in 1..(Len(timeline) - 1) :
          \A j \in 1..Len(last.passes[i + 2].calls) :
            LET call  == last.passes[i + 2].calls[j]
                alpha == RDiv(RSub(call.time.val, timeline[i].mTimeMS.val),
                              RSub(timeline[i + 1].mTimeMS.val, timeline[i].mTimeMS.val))
            IN  call = processorFunc(last.type, last.channel, call.time,
                                     SegmentValue(last.type, timeline, i, alpha))

\* cubic segments whose value depends on the context: the first with before_a
\* padded, the last with after_b padded, each emitting inside the segment
C13_Witness ==
  /\ ScannedSegments
  /\ animation = SplineAnimation
  /\ Len(last.passes[3].calls) = 3
  /\ Len(last.passes[4].calls) = 3
  /\ last.passes[3].calls[2].value # last.passes[3].calls[1].value
  /\ last.passes[4].calls[2].value
       # VariantDouble(interpolate_cubic(Rat(1, 1), Rat(1, 2), Rat(1, 1), Rat(1, 2),
                                        Rat(1, 3)))

---------------------------------------------------------------------------
(* C15 *)

\* the number a keyframe value stands for in the interpolation
Fed(v) ==
  CASE v.mValueType = "BOOLEAN"     -> IF v = VariantBool(TRUE) THEN Rat(1, 1) ELSE Rat(0, 1)
    [] v.mValueType = "BIG_INTEGER" -> v.bits
    [] v.mValueType = "DOUBLE"      -> v.bits

\* the integer nearest to x, the one away from zero when two are as near
Nearest(x) ==
  CHOOSE n \in (Trunc(x) - 1)..(Trunc(x) + 1) :
    LET dist == RSub(x, R(n))
        gap  == IF RLess(dist, R(0)) THEN RSub(R(0), dist) ELSE dist
    IN  \/ RLess(gap, Rat(1, 2))
        \/ gap = Rat(1, 2) /\ Abs(n) > Abs(Trunc(x))

\* what a wrapper hands to the caller for the interpolated result x
Emitted(type, x) ==
  CASE type = "BOOLEAN"     -> VariantBool(~RLess(x, Rat(1, 2)))
    [] type = "BIG_INTEGER" -> VariantInt(Nearest(x))
    [] type = "DOUBLE"      -> VariantDouble(x)

\* the timeline as doubles holding the numbers fed to the interpolation
FedTimeline(timeline) ==
  [k \in 1..Len(timeline) |-> [timeline[k] EXCEPT !.mValue = VariantDouble(Fed(@))]]

\* the timeline with its values turned into values of the type
Retyped(timeline, type) ==
  [k \in 1..Len(timeline) |->
     [timeline[k] EXCEPT !.mValue =
        CASE type = "BOOLEAN"     -> VariantBool(Fed(@) # Rat(0, 1))
          [] type = "BIG_INTEGER" -> VariantInt(Nearest(Fed(@)))
          [] type = "DOUBLE"      -> VariantDouble(Fed(@))]]

TimesOf(calls) == [j \in 1..Len(calls) |-> calls[j].time]

\* C15: processChannelAsBoolean interpolates 1.0 for true and 0.0 for false
\* and emits true exactly when the result is >= 0.5; processChannelAsInteger
\* interpolates the integer as a double and emits the result rounded to the
\* nearest integer, halves away from zero; processChannelAsDouble emits the
\* result unchanged; the three wrappers emit at the same times for the same
\* keyframe times and tick.
C15_TypedWrappers ==
  (Scanned /\ last.found) =>
    LET timeline == animation[last.channel]
        doubles  == processChannelAsDouble((last.channel :> FedTimeline(timeline)),
                                           last.channel, last.iterationMS).calls
    IN  /\ Len(last.calls) = Len(doubles)
        /\ \A j \in 1..Len(last.calls) :
             /\ last.calls[j].time = doubles[j].time
             /\ last.calls[j].value = Emitted(last.type, doubles[j].value.bits)
        /\ \A type \in ValueType :
             TimesOf(processChannel((last.channel :> Retyped(timeline, type)),
                                    last.channel, last.iterationMS, type).calls)
               = TimesOf(last.calls)

\* an integer scan emits -2 for the result -3/2 and -1 for -3/4
C15_Witness ==
  /\ Scanned /\ last.found
  /\ last.type = "BIG_INTEGER"
  /\ animation = RoundingAnimation
  /\ Len(last.calls) = 4
  /\ last.calls[2].value = VariantInt(-1)
  /\ last.calls[3].value = VariantInt(-2)

\* a boolean scan emits true for the result 1/2
C15_WitnessBoolean ==
  /\ Scanned /\ last.found
  /\ last.type = "BOOLEAN"
  /\ animation = RoundingAnimation
  /\ Len(last.calls) = 2
  /\ last.calls[2].value = VariantBool(TRUE)

---------------------------------------------------------------------------
(* C19 *)

\* the first call of a scan at or after the time of keyframe i
FirstCallFrom(timeline, i) ==
  CHOOSE j \in 1..Len(last.calls) :
    /\ TimeLeq(timeline[i].mTimeMS, last.calls[j].time)
    /\ \A e \in 1..(j - 1) : TimeLess(last.calls[e].time, timeline[i].mTimeMS)

\* C19: the calls of one scan come at strictly increasing times; each time
\* is time(k_i) + j * tick_ms for a segment i with
\* time(k_i) <= t < time(k_{i+1}), so every time lies in
\* [time(k1), time(kn)); the first call of each segment whose mode is
\* Constant, Linear, Cubic or Cosine carries value(k_i).
\* (The sum time(k_i) + j * tick_ms is taken in real numbers: the double
\* handed over is that sum as the loop's repeated additions round it; order
\* and bounds are those of the doubles.)
C19_EmissionOrder ==
  (Scanned /\ last.found) =>
    LET timeline == animation[last.channel]
        n        == Len(timeline)
    IN  /\ \A j \in 1..(Len(last.calls) - 1) :
             TimeLess(last.calls[j].time, last.calls[j + 1].time)
        /\ \A j \in 1..Len(last.calls) :
             /\ \E i \in 1..(n - 1), steps \in 0..MaxScan :
                  /\ last.calls[j].time.val
                       = RAdd(timeline[i].mTimeMS.val,
                              RMul(R(steps), last.iterationMS.val))
                  /\ TimeLeq(timeline[i].mTimeMS, last.calls[j].time)
                  /\ TimeLess(last.calls[j].time, timeline[i + 1].mTimeMS)
             /\ TimeLeq(timeline[1].mTimeMS, last.calls[j].time)
             /\ TimeLess(last.calls[j].time, timeline[n].mTimeMS)
        /\ \A i \in 1..(n - 1) :
             timeline[i].mInterpolation \in {"Constant", "Linear", "Cubic", "Cosine"}
             => /\ \E j \in 1..Len(last.calls) :
                     TimeLeq(timeline[i].mTimeMS, last.calls[j].time)
                /\ last.calls[FirstCallFrom(timeline, i)].time = timeline[i].mTimeMS
                /\ last.calls[FirstCallFrom(timeline, i)].value = timeline[i].mValue

\* a scan of Cosine segments of two, three and one ticks: every segment
\* starts on its keyframe's value and moves off it inside the segment
C19_Witness ==
  /\ Scanned /\ last.found
  /\ animation = CosineAnimation
  /\ Len(last.calls) = 6
  /\ last.calls[3].time = Samples(2)
  /\ last.calls[3].value = D(1, 1)
  /\ last.calls[4].value # D(1, 1)
  /\ last.calls[6].value = D(1, 4)

\* a segment starting off the tick grid: the calls stay anchored at its keyframe
C19_WitnessAnchored ==
  /\ Scanned /\ last.found
  /\ last.iterationMS = Samples(2)
  /\ Len(last.calls) = 2
  /\ last.calls[1].time = Samples(1)
  /\ last.calls[2].time = Samples(3)

---------------------------------------------------------------------------
(* C14 *)

\* C14: for a channel whose last keyframe is at time T, no snapshot that
\* processAllChannels delivers with a tick time >= T holds an entry for the
\* channel, and the snapshots without the channel are delivered all the
\* same: the callback runs once for each of the numSamples ticks.
C14_NoValueAfterLastKeyFrame ==
  last.op = "processAllChannels"
  => /\ \A c \in DOMAIN animation :
          Len(animation[c]) > 0
          => \A k \in CallbackPositions :
               ~TimeLess(last.events[k].time, animation[c][Len(animation[c])].mTimeMS)
               => c \notin DOMAIN last.events[k].values
     /\ Cardinality(CallbackPositions)
          = TimeTruncDiv(TimeSub(last.endMS, last.startMS), last.iterationMS)

---------------------------------------------------------------------------
(* C16 *)

\* C16: apply_effect on a buffer of length L applies the snapshot of tick k,
\* k = 0 .. floor(L/2) - 1, to samples 2k and 2k+1 and to no other sample:
\* every stereo frame is transformed exactly once, left and right with the
\* same snapshot; no index >= L is touched and the length stays L.
C16_FrameMapping ==
  last.op = "apply_effect"
  => /\ Len(Callbacks) = Len(last.input) \div 2
     /\ \A k \in 1..Len(Callbacks) :
          get_buffer_pos_from_ms(Callbacks[k].time) = 2 * (k - 1)
     /\ Len(last.buffer) = Len(last.input)
     /\ \A k \in 0..((Len(last.input) \div 2) - 1) :
          /\ k + 1 <= Len(Callbacks)
          /\ \A i \in FrameOf(k) :
               last.buffer[i] = transform_distort(last.input[i], Callbacks[k + 1].values)
     /\ \A i \in 1..Len(last.input) :
          i > 2 * (Len(last.input) \div 2) => last.buffer[i] = last.input[i]

---------------------------------------------------------------------------
(* C20 *)

\* the tick of the processAllChannels call of a finished sampler or effect call
TickOfCall == IF last.op = "apply_effect" THEN SAMPLE_MS ELSE last.iterationMS

\* the tick index of a time: floor(time / tick_ms)
TickIndexOf(time) == Floor(RDiv(time.val, TickOfCall.val))

\* the tick indices whose snapshot holds an entry for the channel
HeldTicks(c) == {i \in 0..(Len(Callbacks) - 1) : c \in DOMAIN Callbacks[i + 1].values}

\* C20: in processAllChannels, of the emissions of one channel that fall on
\* one tick index floor(time / tick_ms) the snapshot keeps the value of the
\* earliest, and the tick indices holding an entry for a channel are the
\* whole range from floor(time(k1) / tick_ms) to the index of the channel's
\* last emission (within the snapshots there are), with no tick left out.
C20_CollisionsAndGaps ==
  Sampled
  => \A c \in DOMAIN animation :
       LET emits == EmitsOf(c)
       IN  /\ \A j \in 1..Len(emits) :
                LET index == TickIndexOf(emits[j].time)
                IN  (/\ index < Len(Callbacks)
                     /\ \A e \in 1..(j - 1) : TickIndexOf(emits[e].time) # index)
                    => /\ index \in HeldTicks(c)
                       /\ Callbacks[index + 1].values[c] = emits[j].value
           /\ Len(emits) > 0
              => HeldTicks(c)
                   = {i \in 0..(Len(Callbacks) - 1) :
                        /\ TickIndexOf(animation[c][1].mTimeMS) <= i
                        /\ i <= TickIndexOf(emits[Len(emits)].time)}

---------------------------------------------------------------------------
(* C17 *)

\* C17: after any sequence of gen_buffer, produce_wave, sample_buffer and
\* free_buffer calls every buffer in the registry holds an even number of
\* 16-bit samples.
C17_EvenLength ==
  \A h \in DOMAIN buffers : Len(buffers[h]) % 2 = 0

---------------------------------------------------------------------------
(* C18 *)

\* the errors that say the buffer is not in the registry
BufferNotFound(buffer) == {set_buffer_not_found_err(buffer), "Buffer not found"}

\* the handles the call recorded in `call` was made on
HandlesOf(call) ==
  IF call.op = "sample_buffer" THEN {call.buffer, call.source} ELSE {call.buffer}

\* C18: every handle gen_buffer returns differs from every handle it
\* returned before, freed or not; and once free_buffer(h) has succeeded,
\* every later produce_wave, sample_buffer, get_buffer_bytes, dump_buffer or
\* free_buffer on h fails with a buffer-not-found error and leaves every
\* buffer as it was.
C18_HandleFreshness ==
  [][/\ last'.op = "gen_buffer"
        => /\ \A i \in 1..Len(handles_returned) : handles_returned[i] # last'.buffer
           /\ handles_returned' = Append(handles_returned, last'.buffer)
     /\ (/\ last'.op \in {"produce_wave", "sample_buffer", "get_buffer_bytes",
                           "dump_buffer", "free_buffer"}
         /\ HandlesOf(last') \cap handles_freed # {})
        => /\ \E h \in HandlesOf(last') : last'.result \in BufferNotFound(h)
           /\ buffers' = buffers]_vars

\* a call on a freed handle has failed while a buffer made after the free is
\* held under a new handle
C18_Witness ==
  /\ last.op \in {"produce_wave", "sample_buffer", "get_buffer_bytes",
                  "dump_buffer", "free_buffer"}
  /\ last.buffer \in handles_freed
  /\ last.result \in BufferNotFound(last.buffer)
  /\ Len(handles_returned) = 2
  /\ handles_returned[1] \in handles_freed
  /\ handles_returned[2] \in DOMAIN buffers

=============================================================================
